---- MODULE Spec2Model ----
(***************************************************************************)
(* lan-mouse: the event codec and datagram channel (src/src/protocol.rs)   *)
(* and the blob request/response exchange (src/src/request.rs).            *)
(*                                                                         *)
(* Representation of machine values:                                       *)
(*   u8   a number in 0..255                                               *)
(*   u32  a number in 0..2^31-1 (the model checker's integers are 32-bit   *)
(*        signed; byte conversions are computed digit by digit)            *)
(*   f64  its IEEE-754 bit pattern, as four 16-bit words, most significant *)
(*        word first (equality of f64 fields is equality of bit patterns)  *)
(*   byte strings are sequences of u8, index 1 = Rust index 0              *)
(***************************************************************************)
EXTENDS Integers, Sequences, FiniteSets, TLC

VARIABLES
    endian,        \* native byte order of the build: "little" or "big"
    config,        \* config::Config.client: the entry of each direction
    cstate,        \* Connection::new: its position, and the panic it ended in
    client_addrs,  \* Connection.client: the resolved address of each direction
    lookups,       \* ghost: the directions whose host name went to the resolver
    xfer,          \* send_data / receive_data: the TCP transfer between two hosts
    net,           \* datagrams queued on the receiver's UDP socket
    rstate,        \* the receiving process: "running" or "panicked"
    rpanic,        \* the panic message of the receiving process, "" if none
    rx,            \* what the last receive_event call returned
    srv,           \* position of the listener thread spawned by Server::listen
    listen_ret,    \* Server::listen has returned Ok to its caller
    store,         \* Server.data: Request -> blob, NoBlob when absent
    lock,          \* the RwLock around the store
    offers,        \* number of offer_data calls made so far
    offering,      \* the offer_data call holding the write lock, NoOffer if none
    hist,          \* ghost: the blobs inserted for KeyMap, oldest first
    accq,          \* connections established but not yet accepted
    cur,           \* the connection handle_request is working on, NoClient if none
    hbuf,          \* handle_request: result of data.get(&Request::KeyMap)
    conn,          \* per client: its TCP connection
    client         \* per client: position and locals of request_data / raw peer

connVars == <<config, cstate, client_addrs, lookups>>
eventVars == <<connVars, net, rstate, rpanic, rx, xfer>>
blobVars == <<srv, listen_ret, store, lock, offers, offering, hist, accq, cur,
              hbuf, conn, client>>
vars == <<endian, eventVars, blobVars>>

(***************************************************************************)
(* Bounds of the model                                                     *)
(***************************************************************************)
MaxNet == 1        \* datagrams queued at once
MaxOffers == 2     \* offer_data calls in a run
MaxCalls == 1      \* connections each client process makes in a run

(***************************************************************************)
(* Byte conversions: to_ne_bytes / from_ne_bytes                           *)
(***************************************************************************)
Reverse(s) == [i \in 1..Len(s) |-> s[Len(s) + 1 - i]]

RECURSIVE BEBytes(_, _)
\* the n low-order base-256 digits of v, most significant first
BEBytes(v, n) == IF n = 0 THEN <<>> ELSE BEBytes(v \div 256, n - 1) \o <<v % 256>>

RECURSIVE BEValue(_)
BEValue(b) == IF Len(b) = 0 THEN 0
              ELSE BEValue(SubSeq(b, 1, Len(b) - 1)) * 256 + b[Len(b)]

Native(be) == IF endian = "big" THEN be ELSE Reverse(be)

u32_to_ne_bytes(v) == Native(BEBytes(v, 4))
u32_from_ne_bytes(b) == BEValue(Native(b))

usize_to_ne_bytes(v) == Native(BEBytes(v, 8))
usize_from_ne_bytes(b) == BEValue(Native(b))

f64_to_ne_bytes(x) ==
    Native(BEBytes(x[1], 2) \o BEBytes(x[2], 2) \o BEBytes(x[3], 2) \o BEBytes(x[4], 2))
f64_from_ne_bytes(b) ==
    LET be == Native(b)
    IN  <<BEValue(SubSeq(be, 1, 2)), BEValue(SubSeq(be, 3, 4)),
          BEValue(SubSeq(be, 5, 6)), BEValue(SubSeq(be, 7, 8))>>

(***************************************************************************)
(* Events                                                                  *)
(***************************************************************************)
U32Vals == {272, 2147483647}
\* -0.0 and 0.1 (0x8000000000000000, 0x3FB999999999999A)
F64Vals == {<<32768, 0, 0, 0>>, <<16313, 39321, 39321, 39322>>}
ButtonState == {"Released", "Pressed"}
KeyState == {"Released", "Pressed"}
Axis == {"VerticalScroll", "HorizontalScroll"}

MouseEvents == [type : {"Mouse"}, t : U32Vals, x : F64Vals, y : F64Vals]
ButtonEvents == [type : {"Button"}, t : U32Vals, b : U32Vals, s : ButtonState]
AxisEvents == [type : {"Axis"}, t : U32Vals, a : Axis, v : F64Vals]
KeyEvents == [type : {"Key"}, t : U32Vals, k : U32Vals, s : KeyState]
KeyModifierEvents == [type : {"KeyModifier"}, mods_depressed : U32Vals,
                      mods_latched : U32Vals, mods_locked : U32Vals, group : U32Vals]
Event == MouseEvents \cup ButtonEvents \cup AxisEvents \cup KeyEvents
            \cup KeyModifierEvents
NoEvent == [type |-> "None"]

FRAME_LEN == 21

\* an encode that writes the button code where the timestamp belongs
EncodeSwapButton(e) ==
    CASE e.type = "Mouse" ->
           <<0>> \o u32_to_ne_bytes(e.t) \o f64_to_ne_bytes(e.x) \o f64_to_ne_bytes(e.y)
      [] e.type = "Button" ->
           <<1>> \o u32_to_ne_bytes(e.b) \o u32_to_ne_bytes(e.t)
                 \o <<IF e.s = "Released" THEN 0 ELSE 1>>
      [] e.type = "Axis" ->
           <<2>> \o u32_to_ne_bytes(e.t)
                 \o <<IF e.a = "VerticalScroll" THEN 0 ELSE 1>> \o f64_to_ne_bytes(e.v)
      [] e.type = "Key" ->
           <<3>> \o u32_to_ne_bytes(e.t) \o u32_to_ne_bytes(e.k)
                 \o <<IF e.s = "Released" THEN 0 ELSE 1>>
      [] e.type = "KeyModifier" ->
           <<4>> \o u32_to_ne_bytes(e.mods_depressed) \o u32_to_ne_bytes(e.mods_latched)
                 \o u32_to_ne_bytes(e.mods_locked) \o u32_to_ne_bytes(e.group)

\* an encode that forgets the last field of the modifier state
EncodeShortKeyModifier(e) ==
    IF e.type = "KeyModifier"
    THEN <<4>> \o u32_to_ne_bytes(e.mods_depressed) \o u32_to_ne_bytes(e.mods_latched)
               \o u32_to_ne_bytes(e.mods_locked)
    ELSE EncodeSwapButton(e)

\* Event::encode
Encode(e) ==
    CASE e.type = "Mouse" ->
           <<0>> \o u32_to_ne_bytes(e.t) \o f64_to_ne_bytes(e.x) \o f64_to_ne_bytes(e.y)
      [] e.type = "Button" ->
           <<1>> \o u32_to_ne_bytes(e.t) \o u32_to_ne_bytes(e.b)
                 \o <<IF e.s = "Released" THEN 0 ELSE 1>>
      [] e.type = "Axis" ->
           <<2>> \o u32_to_ne_bytes(e.t)
                 \o <<IF e.a = "VerticalScroll" THEN 0 ELSE 1>> \o f64_to_ne_bytes(e.v)
      [] e.type = "Key" ->
           <<3>> \o u32_to_ne_bytes(e.t) \o u32_to_ne_bytes(e.k)
                 \o <<IF e.s = "Released" THEN 0 ELSE 1>>
      [] e.type = "KeyModifier" ->
           <<4>> \o u32_to_ne_bytes(e.mods_depressed) \o u32_to_ne_bytes(e.mods_latched)
                 \o u32_to_ne_bytes(e.mods_locked) \o u32_to_ne_bytes(e.group)

Decoded(e) == [kind |-> "Event", event |-> e, msg |-> ""]
Panic(m) == [kind |-> "Panic", event |-> NoEvent, msg |-> m]

\* buf[a..b] of the Rust source (0-based, b exclusive)
Slice(buf, a, b) == SubSeq(buf, a + 1, b)

DecodeMouse(buf) ==
    Decoded([type |-> "Mouse",
             t |-> u32_from_ne_bytes(Slice(buf, 1, 5)),
             x |-> f64_from_ne_bytes(Slice(buf, 5, 13)),
             y |-> f64_from_ne_bytes(Slice(buf, 13, 21))])

DecodeButton(buf) ==
    IF buf[10] \notin {0, 1} THEN Panic("protocol violation")
    ELSE Decoded([type |-> "Button",
                  t |-> u32_from_ne_bytes(Slice(buf, 1, 5)),
                  b |-> u32_from_ne_bytes(Slice(buf, 5, 9)),
                  s |-> IF buf[10] = 0 THEN "Released" ELSE "Pressed"])

DecodeAxis(buf) ==
    IF buf[6] \notin {0, 1} THEN Panic("not yet implemented")
    ELSE Decoded([type |-> "Axis",
                  t |-> u32_from_ne_bytes(Slice(buf, 1, 5)),
                  a |-> IF buf[6] = 0 THEN "VerticalScroll" ELSE "HorizontalScroll",
                  v |-> f64_from_ne_bytes(Slice(buf, 6, 14))])

DecodeKey(buf) ==
    IF buf[10] \notin {0, 1} THEN Panic("not yet implemented")
    ELSE Decoded([type |-> "Key",
                  t |-> u32_from_ne_bytes(Slice(buf, 1, 5)),
                  k |-> u32_from_ne_bytes(Slice(buf, 5, 9)),
                  s |-> IF buf[10] = 0 THEN "Released" ELSE "Pressed"])

DecodeKeyModifier(buf) ==
    Decoded([type |-> "KeyModifier",
             mods_depressed |-> u32_from_ne_bytes(Slice(buf, 1, 5)),
             mods_latched |-> u32_from_ne_bytes(Slice(buf, 5, 9)),
             mods_locked |-> u32_from_ne_bytes(Slice(buf, 9, 13)),
             group |-> u32_from_ne_bytes(Slice(buf, 13, 17))])

\* a decode whose catch-all arm falls back to the last variant
DecodeDefaultArm(buf) ==
    CASE buf[1] = 0 -> DecodeMouse(buf)
      [] buf[1] = 1 -> DecodeButton(buf)
      [] buf[1] = 2 -> DecodeAxis(buf)
      [] buf[1] = 3 -> DecodeKey(buf)
      [] OTHER -> DecodeKeyModifier(buf)

\* Event::decode: the event, or the panic the call ends in
Decode(buf) ==
    CASE buf[1] = 0 -> DecodeMouse(buf)
      [] buf[1] = 1 -> DecodeButton(buf)
      [] buf[1] = 2 -> DecodeAxis(buf)
      [] buf[1] = 3 -> DecodeKey(buf)
      [] buf[1] = 4 -> DecodeKeyModifier(buf)
      [] OTHER -> Panic("protocol violation")

(***************************************************************************)
(* Configuration and Connection::new                                       *)
(***************************************************************************)
Dirs == <<"left", "right", "top", "bottom">>
Directions == {"left", "right", "top", "bottom"}
DEFAULT_PORT == 42069

\* Option<SocketAddr>::None, and the absent values of an entry's fields
NoAddr == [ip |-> "-", port |-> 0]
Absent == [present |-> FALSE, ip |-> "-", host_name |-> "-", port |-> 0]
Entry(ip, host, port) == [present |-> TRUE, ip |-> ip, host_name |-> host, port |-> port]

\* what the resolver may answer for a host name: an error, an empty
\* response, or a first address
DnsAnswers == {"error", "empty", "10.0.0.9"}

ResolvedSome(ip, port) == [kind |-> "Some", addr |-> [ip |-> ip, port |-> port],
                           looked |-> FALSE, msg |-> ""]
ResolvedNone == [kind |-> "None", addr |-> NoAddr, looked |-> FALSE, msg |-> ""]
ResolvePanic(looked, m) == [kind |-> "Panic", addr |-> NoAddr, looked |-> looked,
                            msg |-> m]
PortOf(entry) == IF entry.port # 0 THEN entry.port ELSE DEFAULT_PORT

\* a resolve that asks the resolver first whenever a host name is given
ResolveHostFirst(entry, answer) ==
    IF ~entry.present THEN ResolvedNone
    ELSE IF entry.host_name # "-"
    THEN IF answer \in {"error", "empty"}
         THEN ResolvePanic(TRUE, "couldn't resolve")
         ELSE [ResolvedSome(answer, PortOf(entry)) EXCEPT !.looked = TRUE]
    ELSE IF entry.ip # "-" THEN ResolvedSome(entry.ip, PortOf(entry))
    ELSE ResolvePanic(FALSE, "either ip or host_name must be specified")

\* a resolve that takes an entry without ip and host name for an absent one
ResolveNeitherAsNone(entry, answer) ==
    IF ~entry.present THEN ResolvedNone
    ELSE IF entry.ip # "-" THEN ResolvedSome(entry.ip, PortOf(entry))
    ELSE IF entry.host_name # "-"
    THEN IF answer \in {"error", "empty"}
         THEN ResolvePanic(TRUE, "couldn't resolve")
         ELSE [ResolvedSome(answer, PortOf(entry)) EXCEPT !.looked = TRUE]
    ELSE ResolvedNone

\* impl Resolve for Option<config::Client>: the address, nothing, or the
\* panic the call ends in; answer is what the resolver says if it is asked
Resolve(entry, answer) ==
    IF ~entry.present THEN ResolvedNone
    ELSE IF entry.ip # "-" THEN ResolvedSome(entry.ip, PortOf(entry))
    ELSE IF entry.host_name # "-"
    THEN IF answer \in {"error", "empty"}
         THEN ResolvePanic(TRUE, "couldn't resolve")
         ELSE [ResolvedSome(answer, PortOf(entry)) EXCEPT !.looked = TRUE]
    ELSE ResolvePanic(FALSE, "either ip or host_name must be specified")

NoAddrs == [d \in Directions |-> NoAddr]
NoXfer == [spc |-> "-", rpc |-> "-", buf |-> <<>>, wire |-> <<>>, data |-> <<>>]
NotStarted == [pc |-> "start", msg |-> ""]
Ready == [pc |-> "ready", msg |-> ""]

\* the first direction, in the order Connection::new resolves them, whose
\* resolve panics; 5 if none does
RECURSIVE FirstPanic(_, _, _)
FirstPanic(cfg, ans, i) ==
    IF i > 4 THEN 5
    ELSE IF Resolve(cfg[Dirs[i]], ans[Dirs[i]]).kind = "Panic" THEN i
    ELSE FirstPanic(cfg, ans, i + 1)

\* Connection::new, the ClientAddrs: the four resolve calls, in order
conn_resolve ==
    /\ cstate.pc = "start"
    /\ \E ans \in [Directions -> DnsAnswers] :
         LET stop == FirstPanic(config, ans, 1)
             called == {Dirs[i] : i \in {j \in 1..4 : j <= stop}}
         IN  /\ lookups' = {d \in called : Resolve(config[d], ans[d]).looked}
             /\ IF stop <= 4
                THEN /\ cstate' = [pc |-> "panicked",
                                   msg |-> Resolve(config[Dirs[stop]],
                                                   ans[Dirs[stop]]).msg]
                     /\ UNCHANGED client_addrs
                ELSE /\ cstate' = [pc |-> "resolved", msg |-> ""]
                     /\ client_addrs' =
                            [d \in Directions |-> Resolve(config[d], ans[d]).addr]
    /\ UNCHANGED <<endian, config, net, rstate, rpanic, rx, xfer, blobVars>>

\* Connection::new, the Connection: UdpSocket::bind(..).unwrap()
conn_bind ==
    /\ cstate.pc = "resolved"
    /\ \/ cstate' = Ready
       \/ cstate' = [pc |-> "panicked", msg |-> "bind"]
    /\ UNCHANGED <<endian, config, client_addrs, lookups, net, rstate, rpanic, rx,
                   xfer, blobVars>>

(***************************************************************************)
(* The datagram channel: Connection::send_event / receive_event            *)
(***************************************************************************)
Zeros(n) == [i \in 1..n |-> 0]
Pad(b) == b \o Zeros(FRAME_LEN - Len(b))

\* datagrams that do not come from send_event: frames with a tag outside
\* 0..4, frames with a state or axis byte outside {0,1}, a one-byte datagram
\* and an overlong one (recv_from drops what does not fit the buffer)
BadTagFrames == {Pad(<<5>>), Pad(<<77, 1, 0, 0, 0, 1, 0, 0, 0, 1>>), Pad(<<255>>)}
BadStateFrames == {Pad(<<1, 7, 0, 0, 0, 16, 1, 0, 0, 2>>),
                   Pad(<<3, 7, 0, 0, 0, 30, 0, 0, 0, 2>>),
                   <<3, 7, 0, 0, 0, 30, 0, 0, 0, 127>>}
BadAxisFrames == {Pad(<<2, 7, 0, 0, 0, 2>>)}
ForeignFrames == BadTagFrames \cup BadStateFrames \cup BadAxisFrames
                    \cup {<<4>>, Pad(<<1, 7, 0, 0, 0, 16, 1, 0, 0, 1>>) \o <<9>>}

\* the socket of the host that runs receive_event: the peer to the right
PeerSocket == [ip |-> "10.0.0.2", port |-> DEFAULT_PORT]

NotCalled == [ret |-> "-", event |-> NoEvent, src |-> NoEvent, raw |-> <<>>]

\* the [u8; 21] buffer after recv_from wrote the datagram d into it
RecvBuf(d) == [i \in 1..FRAME_LEN |-> IF i <= Len(d) THEN d[i] ELSE 0]

InitEventVars ==
    /\ xfer = NoXfer
    /\ net = <<>>
    /\ rstate = "running"
    /\ rpanic = ""
    /\ rx = NotCalled

\* a send_event that sends to the first configured direction
send_event_any(e) ==
    /\ cstate.pc = "ready"
    /\ IF \E d \in Directions : client_addrs[d] # NoAddr
       THEN /\ Len(net) < MaxNet
            /\ LET i == CHOOSE j \in 1..4 :
                            /\ client_addrs[Dirs[j]] # NoAddr
                            /\ \A k \in 1..(j - 1) : client_addrs[Dirs[k]] = NoAddr
               IN  net' = Append(net, [bytes |-> Encode(e), src |-> e,
                                       dst |-> client_addrs[Dirs[i]]])
       ELSE net' = net
    /\ UNCHANGED <<endian, connVars, rstate, rpanic, rx, xfer, blobVars>>

\* Connection::send_event(e), send_to returning Ok
send_event(e) ==
    /\ cstate.pc = "ready"
    /\ IF client_addrs.right # NoAddr
       THEN /\ Len(net) < MaxNet
            /\ net' = Append(net, [bytes |-> Encode(e), src |-> e,
                                    dst |-> client_addrs.right])
       ELSE net' = net
    /\ UNCHANGED <<endian, connVars, rstate, rpanic, rx, xfer, blobVars>>

\* a datagram from anywhere else reaches the socket
ForeignDatagram(b) ==
    /\ Len(net) < MaxNet
    /\ net' = Append(net, [bytes |-> b, src |-> NoEvent, dst |-> PeerSocket])
    /\ UNCHANGED <<endian, connVars, rstate, rpanic, rx, xfer, blobVars>>

\* Connection::receive_event, recv_from returning Ok
receive_event ==
    /\ cstate.pc = "ready"
    /\ rstate = "running"
    /\ net # <<>>
    /\ Head(net).dst = PeerSocket
    /\ LET d == Head(net)
           r == Decode(RecvBuf(d.bytes))
       IN  /\ net' = Tail(net)
           /\ IF r.kind = "Event"
              THEN /\ rx' = [ret |-> "Some", event |-> r.event, src |-> d.src,
                             raw |-> d.bytes]
                   /\ UNCHANGED <<rstate, rpanic>>
              ELSE /\ rstate' = "panicked"
                   /\ rpanic' = r.msg
                   /\ rx' = [ret |-> "-", event |-> NoEvent, src |-> d.src,
                             raw |-> d.bytes]
    /\ UNCHANGED <<endian, connVars, xfer, blobVars>>

\* a receive_event that unwraps the result of recv_from
receive_event_unwrap ==
    /\ cstate.pc = "ready"
    /\ rstate = "running"
    /\ rstate' = "panicked"
    /\ rpanic' = "recv_from"
    /\ rx' = NotCalled
    /\ UNCHANGED <<endian, connVars, net, xfer, blobVars>>

\* Connection::receive_event, recv_from returning Err
receive_event_err ==
    /\ cstate.pc = "ready"
    /\ rstate = "running"
    /\ rx' = [ret |-> "None", event |-> NoEvent, src |-> NoEvent, raw |-> <<>>]
    /\ UNCHANGED <<endian, connVars, net, rstate, rpanic, xfer, blobVars>>

(***************************************************************************)
(* The data transfer: Connection::send_data / receive_data                 *)
(***************************************************************************)
DATA_PORT == 42069
DataBufs == {<<>>, <<7>>, <<8, 9>>}

\* the address receive_data listens on at the peer, and the one send_data
\* connects to
DataSocket == [ip |-> PeerSocket.ip, port |-> DATA_PORT]
DataAddr(addr) == [ip |-> addr.ip, port |-> DATA_PORT]

\* Vec::with_capacity(len): room for len bytes, none of them in the vector
WithCapacity(len) == <<>>

\* stream.read_exact(&mut data[..]): fills the slice, as long as it is, with
\* the bytes of the stream that follow the first skip ones
ReadExact(stream, skip, data) ==
    [i \in 1..Len(data) |-> stream[skip + i]]

\* Connection::send_data(buf)
send_data(buf) ==
    /\ cstate.pc = "ready"
    /\ xfer.spc = "-"
    /\ IF client_addrs.right = NoAddr
       THEN xfer' = [xfer EXCEPT !.spc = "skipped", !.buf = buf]
       ELSE IF DataAddr(client_addrs.right) = DataSocket /\ xfer.rpc = "listening"
       THEN xfer' = [xfer EXCEPT !.spc = "sent", !.buf = buf,
                                 !.wire = usize_to_ne_bytes(Len(buf)) \o buf]
       ELSE xfer' = [xfer EXCEPT !.spc = "panicked", !.buf = buf]
    /\ UNCHANGED <<endian, connVars, net, rstate, rpanic, rx, blobVars>>

\* Connection::receive_data at the peer: TcpListener::bind
receive_data_bind ==
    /\ xfer.rpc = "-"
    /\ xfer' = [xfer EXCEPT !.rpc = "listening"]
    /\ UNCHANGED <<endian, connVars, net, rstate, rpanic, rx, blobVars>>

\* Connection::receive_data at the peer: accept, read the length, read the
\* data, return it
receive_data ==
    /\ xfer.rpc = "listening"
    /\ xfer.spc = "sent"
    /\ LET len == usize_from_ne_bytes(SubSeq(xfer.wire, 1, 8))
           data == WithCapacity(len)
       IN  xfer' = [xfer EXCEPT !.rpc = "done",
                                !.data = ReadExact(xfer.wire, 8, data)]
    /\ UNCHANGED <<endian, connVars, net, rstate, rpanic, rx, blobVars>>

(***************************************************************************)
(* The blob exchange: Server::listen / handle_request / offer_data and     *)
(* request_data                                                            *)
(***************************************************************************)
Request == {"KeyMap", "Connect"}
\* `Request::X as u32`
Ordinal(req) == IF req = "KeyMap" THEN 0 ELSE 1

Blobs == {<<10, 11>>, <<20>>}
NoBlob == <<>>
NoOffer == [req |-> "-", d |-> NoBlob]
\* the processes that connect to the listener: one that calls request_data,
\* and one arbitrary peer that sends what it likes and closes when it likes
Requesters == {"app"}
RawPeers == {"peer"}
Clients == Requesters \cup RawPeers
NoClient == "-"

\* what a peer that is not request_data may send before it closes
RawSends == {<<>>, <<0, 0>>, <<0, 0, 0, 0>>, <<1, 0, 0, 0>>, <<0, 1, 0, 0>>}

\* a conversion that takes every unknown ordinal for KeyMap
TryFromDefaultKeyMap(buf) ==
    LET val == u32_from_ne_bytes(buf)
    IN  IF val = Ordinal("Connect") THEN "Connect" ELSE "KeyMap"

\* impl TryFrom<[u8; 4]> for Request: the request, or "Err"
TryFrom(buf) ==
    LET val == u32_from_ne_bytes(buf)
    IN  IF val = Ordinal("KeyMap") THEN "KeyMap"
        ELSE IF val = Ordinal("Connect") THEN "Connect"
        ELSE "Err"

NoConn == [open |-> FALSE, c2s |-> <<>>, s2c |-> <<>>, c_closed |-> FALSE,
           s_closed |-> FALSE, sent |-> <<>>, reply |-> <<>>, seen |-> 0,
           arm |-> "-", end |-> "-"]
NotReturned == [kind |-> "-", data |-> <<>>]
IdleClient == [pc |-> "idle", calls |-> 0, req |-> "-", len |-> 0, res |-> NotReturned]

InitBlobVars ==
    /\ srv = "none"
    /\ listen_ret = FALSE
    /\ store = [r \in Request |-> NoBlob]
    /\ lock = [readers |-> 0, writer |-> FALSE]
    /\ offers = 0
    /\ offering = NoOffer
    /\ hist = <<>>
    /\ accq = <<>>
    /\ cur = NoClient
    /\ hbuf = "-"
    /\ conn = [c \in Clients |-> NoConn]
    /\ client = [c \in Clients |-> IdleClient]

Bound == srv \in {"accepting", "read_tag", "lock", "write_len", "write_payload",
                  "finish"}

RECURSIVE CloseAll(_, _)
\* the server's end of every connection of q is closed
CloseAll(cn, q) ==
    IF q = <<>> THEN cn
    ELSE CloseAll([cn EXCEPT ![Head(q)].s_closed = TRUE], Tail(q))

\* Server::listen(port): the thread is spawned and Ok(server) returned
listen ==
    /\ srv = "none"
    /\ srv' = "spawned"
    /\ listen_ret' = TRUE
    /\ UNCHANGED <<endian, eventVars, store, lock, offers, offering, hist, accq,
                   cur, hbuf, conn, client>>

\* the spawned thread: TcpListener::bind(listen_addr).unwrap()
thread_bind ==
    /\ srv = "spawned"
    /\ \/ srv' = "accepting"
       \/ srv' = "bind_failed"
    /\ UNCHANGED <<endian, eventVars, listen_ret, store, lock, offers, offering,
                   hist, accq, cur, hbuf, conn, client>>

\* a loop that takes the next stream while the last one's tag is being read
accept_busy ==
    /\ srv \in {"accepting", "read_tag"}
    /\ accq # <<>>
    /\ cur' = Head(accq)
    /\ accq' = Tail(accq)
    /\ srv' = "read_tag"
    /\ conn' = [conn EXCEPT ![Head(accq)].seen = Len(hist)]
    /\ UNCHANGED <<endian, eventVars, listen_ret, store, lock, offers, offering,
                   hist, hbuf, client>>

\* the spawned thread: listen_socket.incoming() yields the next stream
accept ==
    /\ srv = "accepting"
    /\ accq # <<>>
    /\ cur' = Head(accq)
    /\ accq' = Tail(accq)
    /\ srv' = "read_tag"
    /\ conn' = [conn EXCEPT ![Head(accq)].seen = Len(hist)]
    /\ UNCHANGED <<endian, eventVars, listen_ret, store, lock, offers, offering,
                   hist, hbuf, client>>

\* a panic of the listener thread: the stack unwinds, dropping the read
\* guard, the stream and the listening socket with its pending connections
thread_panic_with(cn) ==
    /\ srv' = "panicked"
    /\ lock' = [lock EXCEPT !.readers = 0]
    /\ conn' = CloseAll([cn EXCEPT ![cur].end = "panicked"], <<cur>> \o accq)
    /\ accq' = <<>>
    /\ cur' = NoClient
    /\ hbuf' = "-"

thread_panic == thread_panic_with(conn)

\* handle_request returns: the stream is dropped, the loop accepts again
handler_return_with(cn) ==
    /\ srv' = "accepting"
    /\ conn' = [cn EXCEPT ![cur].s_closed = TRUE, ![cur].end = "returned"]
    /\ cur' = NoClient
    /\ hbuf' = "-"

handler_return == handler_return_with(conn)

\* handle_request: read_exact of the tag, Request::try_from, the match
handle_read_tag ==
    /\ srv = "read_tag"
    /\ IF Len(conn[cur].c2s) >= 4
       THEN LET buf == SubSeq(conn[cur].c2s, 1, 4)
                rest == SubSeq(conn[cur].c2s, 5, Len(conn[cur].c2s))
                req == TryFrom(buf)
                cn == [conn EXCEPT ![cur].c2s = rest, ![cur].arm = req]
            IN  CASE req = "KeyMap" ->
                       /\ srv' = "lock"
                       /\ conn' = cn
                       /\ UNCHANGED <<lock, accq, cur, hbuf>>
                  [] req = "Connect" ->
                       \* todo!()
                       /\ thread_panic_with(cn)
                  [] OTHER ->
                       \* eprintln!
                       /\ handler_return_with(cn)
                       /\ UNCHANGED <<lock, accq>>
       ELSE \* read_exact fails with UnexpectedEof, unwrap panics
            /\ conn[cur].c_closed
            /\ thread_panic
    /\ UNCHANGED <<endian, eventVars, listen_ret, store, offers, offering, hist,
                   client>>

\* handle_request: self.data.read().unwrap() and data.get(&Request::KeyMap)
handle_lookup ==
    /\ srv = "lock"
    /\ ~lock.writer
    /\ lock' = [lock EXCEPT !.readers = lock.readers + 1]
    /\ hbuf' = IF store["KeyMap"] = NoBlob THEN "None" ELSE "Some"
    /\ srv' = "write_len"
    /\ UNCHANGED <<endian, eventVars, listen_ret, store, offers, offering, hist,
                   accq, cur, conn, client>>

ServerWrite(b) ==
    conn' = [conn EXCEPT ![cur].s2c = @ \o b, ![cur].reply = @ \o b]

\* a handler that writes every length as it writes the absent one, as a u32
handle_write_len_u32 ==
    /\ srv = "write_len"
    /\ IF hbuf = "None"
       THEN /\ ServerWrite(u32_to_ne_bytes(0))
            /\ srv' = "finish"
       ELSE /\ ServerWrite(u32_to_ne_bytes(Len(store["KeyMap"])))
            /\ srv' = "write_payload"
    /\ UNCHANGED <<endian, eventVars, listen_ret, store, lock, offers, offering,
                   hist, accq, cur, hbuf, client>>

\* handle_request: the write of the length
handle_write_len ==
    /\ srv = "write_len"
    /\ IF hbuf = "None"
       THEN /\ ServerWrite(u32_to_ne_bytes(0))
            /\ srv' = "finish"
       ELSE /\ ServerWrite(usize_to_ne_bytes(Len(store["KeyMap"])))
            /\ srv' = "write_payload"
    /\ UNCHANGED <<endian, eventVars, listen_ret, store, lock, offers, offering,
                   hist, accq, cur, hbuf, client>>

\* handle_request: stream.write(&buf[..])
handle_write_payload ==
    /\ srv = "write_payload"
    /\ ServerWrite(store["KeyMap"])
    /\ srv' = "finish"
    /\ UNCHANGED <<endian, eventVars, listen_ret, store, lock, offers, offering,
                   hist, accq, cur, hbuf, client>>

\* handle_request: a write fails because the peer has gone, unwrap panics
handle_write_err ==
    /\ srv \in {"write_len", "write_payload"}
    /\ conn[cur].c_closed
    /\ thread_panic
    /\ UNCHANGED <<endian, eventVars, listen_ret, store, offers, offering, hist,
                   client>>

\* handle_request: flush, the read guard is dropped, the function returns
handle_finish ==
    /\ srv = "finish"
    /\ lock' = [lock EXCEPT !.readers = lock.readers - 1]
    /\ handler_return
    /\ UNCHANGED <<endian, eventVars, listen_ret, store, offers, offering, hist,
                   accq, client>>

\* an offer_data whose write access does not wait for the readers
offer_data_lock_unguarded(req, d) ==
    /\ listen_ret
    /\ offers < MaxOffers
    /\ offering = NoOffer
    /\ ~lock.writer
    /\ lock' = [lock EXCEPT !.writer = TRUE]
    /\ offering' = [req |-> req, d |-> d]
    /\ offers' = offers + 1
    /\ UNCHANGED <<endian, eventVars, srv, listen_ret, store, hist, accq, cur,
                   hbuf, conn, client>>

\* Server::offer_data(req, d): self.data.write() is granted
offer_data_lock(req, d) ==
    /\ listen_ret
    /\ offers < MaxOffers
    /\ offering = NoOffer
    /\ lock.readers = 0 /\ ~lock.writer
    /\ lock' = [lock EXCEPT !.writer = TRUE]
    /\ offering' = [req |-> req, d |-> d]
    /\ offers' = offers + 1
    /\ UNCHANGED <<endian, eventVars, srv, listen_ret, store, hist, accq, cur,
                   hbuf, conn, client>>

\* an insert that keeps the entry a tag already has
InsertIfAbsent(m, req, d) == IF m[req] = NoBlob THEN [m EXCEPT ![req] = d] ELSE m

\* HashMap::insert
Insert(m, req, d) == [m EXCEPT ![req] = d]

\* Server::offer_data(req, d): insert(req, d), the write guard is dropped
offer_data_insert ==
    /\ offering # NoOffer
    /\ store' = Insert(store, offering.req, offering.d)
    /\ hist' = IF offering.req = "KeyMap" THEN Append(hist, offering.d) ELSE hist
    /\ lock' = [lock EXCEPT !.writer = FALSE]
    /\ offering' = NoOffer
    /\ UNCHANGED <<endian, eventVars, srv, listen_ret, offers, accq, cur, hbuf,
                   conn, client>>

\* TcpStream::connect(addr) of client c succeeds, and b is written to it
Connected(c, b) ==
    /\ conn' = [conn EXCEPT ![c] = [NoConn EXCEPT !.open = TRUE, !.c2s = b,
                                                  !.sent = b]]
    /\ accq' = Append(accq, c)

\* client process c may start a call: it has calls left, its last one has
\* ended and the server no longer holds that connection
MayCall(c) ==
    /\ client[c].pc \in {"idle", "done", "panicked", "closed"}
    /\ client[c].calls < MaxCalls
    /\ cur # c
    /\ \A i \in 1..Len(accq) : accq[i] # c

Calling(c, pc, req) ==
    [IdleClient EXCEPT !.pc = pc, !.req = req, !.calls = client[c].calls + 1]

\* request_data(addr, req): connect, then the request is written and flushed
request_data_send(c, req) ==
    /\ c \in Requesters
    /\ MayCall(c)
    /\ IF Bound
       THEN /\ Connected(c, u32_to_ne_bytes(Ordinal(req)))
            /\ client' = [client EXCEPT ![c] = Calling(c, "read_len", req)]
       ELSE \* connection refused, unwrap panics
            /\ client' = [client EXCEPT ![c] =
                            [Calling(c, "panicked", req) EXCEPT
                               !.res = [kind |-> "Panic", data |-> <<>>]]]
            /\ conn' = [conn EXCEPT ![c] = NoConn]
            /\ UNCHANGED accq
    /\ UNCHANGED <<endian, eventVars, srv, listen_ret, store, lock, offers,
                   offering, hist, cur, hbuf>>

\* request_data ends: by return or by panic, the socket is dropped
ClientEnds(c, res, s2c) ==
    /\ client' = [client EXCEPT ![c].pc = IF res.kind = "Panic" THEN "panicked"
                                          ELSE "done",
                                ![c].res = res]
    /\ conn' = [conn EXCEPT ![c].s2c = s2c, ![c].c_closed = TRUE]

\* request_data: read_exact of the 8 length bytes, the check for len == 0
request_read_len(c) ==
    /\ client[c].pc = "read_len"
    /\ IF Len(conn[c].s2c) >= 8
       THEN LET len == usize_from_ne_bytes(SubSeq(conn[c].s2c, 1, 8))
                rest == SubSeq(conn[c].s2c, 9, Len(conn[c].s2c))
            IN  IF len = 0
                THEN ClientEnds(c, [kind |-> "None", data |-> <<>>], rest)
                ELSE /\ client' = [client EXCEPT ![c].pc = "read_data",
                                                 ![c].len = len]
                     /\ conn' = [conn EXCEPT ![c].s2c = rest]
       ELSE \* the stream ended before 8 bytes came: read_exact fails
            /\ conn[c].s_closed
            /\ ClientEnds(c, [kind |-> "Panic", data |-> <<>>], conn[c].s2c)
    /\ UNCHANGED <<endian, eventVars, srv, listen_ret, store, lock, offers,
                   offering, hist, accq, cur, hbuf>>

\* request_data: read_exact of len bytes, Some(data)
request_read_data(c) ==
    /\ client[c].pc = "read_data"
    /\ LET len == client[c].len
       IN  IF Len(conn[c].s2c) >= len
           THEN ClientEnds(c, [kind |-> "Some", data |-> SubSeq(conn[c].s2c, 1, len)],
                           SubSeq(conn[c].s2c, len + 1, Len(conn[c].s2c)))
           ELSE /\ conn[c].s_closed
                /\ ClientEnds(c, [kind |-> "Panic", data |-> <<>>], conn[c].s2c)
    /\ UNCHANGED <<endian, eventVars, srv, listen_ret, store, lock, offers,
                   offering, hist, accq, cur, hbuf>>

\* a peer that is not request_data connects and sends b
raw_open(c, b) ==
    /\ c \in RawPeers
    /\ MayCall(c)
    /\ Bound
    /\ Connected(c, b)
    /\ client' = [client EXCEPT ![c] = Calling(c, "raw", "-")]
    /\ UNCHANGED <<endian, eventVars, srv, listen_ret, store, lock, offers,
                   offering, hist, cur, hbuf>>

\* that peer closes its end
raw_close(c) ==
    /\ client[c].pc = "raw"
    /\ conn' = [conn EXCEPT ![c].c_closed = TRUE]
    /\ client' = [client EXCEPT ![c].pc = "closed"]
    /\ UNCHANGED <<endian, eventVars, srv, listen_ret, store, lock, offers,
                   offering, hist, accq, cur, hbuf>>

(***************************************************************************)
(* Specifications                                                          *)
(***************************************************************************)
\* a configuration of literal addresses without a peer to the right, and one
\* with all four peers
EventConfigs ==
    { [left |-> Entry("10.0.0.1", "-", 0), right |-> Absent,
       top |-> Entry("10.0.0.3", "-", 0), bottom |-> Entry("10.0.0.4", "-", 0)],
      [left |-> Entry("10.0.0.1", "-", 0), right |-> Entry("10.0.0.2", "-", 0),
       top |-> Entry("10.0.0.3", "-", 0), bottom |-> Entry("10.0.0.4", "-", 0)] }

\* the Connection as Connection::new leaves it when nothing fails
Constructed ==
    /\ config \in EventConfigs
    /\ cstate = Ready
    /\ client_addrs = [d \in Directions |-> Resolve(config[d], "error").addr]
    /\ lookups = {}

InitEvent ==
    /\ endian \in {"little", "big"}
    /\ Constructed
    /\ InitEventVars
    /\ InitBlobVars

\* the entries a direction may have: none, a literal ip, a host name, both
\* with a port, neither
ConnEntries == {Absent, Entry("10.0.0.2", "-", 0), Entry("-", "peer.lan", 0),
                Entry("10.0.0.2", "peer.lan", 4242), Entry("-", "-", 0)}
ConnEvents == {e \in ButtonEvents : e.t = 272 /\ e.b = 272}

InitConn ==
    /\ endian \in {"little", "big"}
    /\ config \in [Directions -> ConnEntries]
    /\ cstate = NotStarted
    /\ client_addrs = NoAddrs
    /\ lookups = {}
    /\ InitEventVars
    /\ InitBlobVars

NextConn ==
    \/ conn_resolve
    \/ conn_bind
    \/ \E e \in ConnEvents : send_event(e)
    \/ receive_event
    \/ receive_event_err
    \/ \E buf \in DataBufs : send_data(buf)
    \/ receive_data_bind
    \/ receive_data

SpecConn == InitConn /\ [][NextConn]_vars

NextEvent ==
    \/ \E e \in Event : send_event(e)
    \/ \E b \in ForeignFrames : ForeignDatagram(b)
    \/ receive_event
    \/ receive_event_err

SpecEvent == InitEvent /\ [][NextEvent]_vars

InitBlob ==
    /\ endian \in {"little", "big"}
    /\ config = [d \in Directions |-> Absent]
    /\ cstate = NotStarted
    /\ client_addrs = NoAddrs
    /\ lookups = {}
    /\ InitEventVars
    /\ InitBlobVars

NextBlob ==
    \/ listen
    \/ thread_bind
    \/ accept
    \/ handle_read_tag
    \/ handle_lookup
    \/ handle_write_len
    \/ handle_write_payload
    \/ handle_write_err
    \/ handle_finish
    \/ \E req \in Request, d \in Blobs : offer_data_lock(req, d)
    \/ offer_data_insert
    \/ \E c \in Clients, req \in Request : request_data_send(c, req)
    \/ \E c \in Clients : request_read_len(c)
    \/ \E c \in Clients : request_read_data(c)
    \/ \E c \in Clients, b \in RawSends : raw_open(c, b)
    \/ \E c \in Clients : raw_close(c)

SpecBlob == InitBlob /\ [][NextBlob]_vars

(***************************************************************************)
(* Properties of the event codec and the datagram channel (SpecEvent)      *)
(***************************************************************************)

\* C1: every datagram that send_event made from an event e, received into the
\* zero-initialised 21-byte buffer of receive_event, decodes to an event equal
\* to e field for field (and never ends in a panic).
C1_RoundTrip ==
    rx.src # NoEvent => (rx.ret = "Some" /\ rx.event = rx.src)

C1_Witness ==
    /\ rx.ret = "Some"
    /\ rx.src \in KeyModifierEvents
    /\ rx.src.mods_depressed # rx.src.group
    /\ rx.event = rx.src

\* number of bytes of a frame up to the end of the variant's payload
PayloadEnd(type) ==
    CASE type = "Mouse" -> 21
      [] type = "Button" -> 10
      [] type = "Axis" -> 14
      [] type = "Key" -> 10
      [] type = "KeyModifier" -> 17

C6_ReceiveLoopSurvives == rstate = "running"

\* C7: a received buffer whose tag byte is outside 0..4 ends Event::decode in
\* the "protocol violation" panic and never yields an event.
C7_TagRejection ==
    (rx.raw # <<>> /\ RecvBuf(rx.raw)[1] \notin 0..4) =>
        (rx.ret # "Some" /\ rstate = "panicked" /\ rpanic = "protocol violation")

C7_Witness ==
    /\ rx.raw \in BadTagFrames
    /\ rx.raw[1] = 77
    /\ rstate = "panicked"

\* C8: a received Button or Key frame whose byte 9 is outside {0,1} ends
\* Event::decode in the "protocol violation" panic, for both variants alike.
C8_StateRejection ==
    (/\ rx.raw # <<>>
     /\ RecvBuf(rx.raw)[1] \in {1, 3}
     /\ RecvBuf(rx.raw)[10] \notin {0, 1}) =>
        (rx.ret # "Some" /\ rstate = "panicked" /\ rpanic = "protocol violation")

(***************************************************************************)
(* Properties of the blob exchange (SpecBlob)                              *)
(***************************************************************************)
Ended(c) == client[c].pc \in {"done", "panicked"}
\* the reply that carries blob b
ReplyFor(b) == usize_to_ne_bytes(Len(b)) \o b
Last(q) == q[Len(q)]

\* C3: a request_data(addr, KeyMap) whose connection is accepted after an
\* offer_data(KeyMap, bytes) has returned does not fail, and returns
\* Some(data) with data one of the offered blobs: the last one offered when
\* no later offer has returned.
C3_BlobRoundTrip ==
    \A c \in Requesters :
        (client[c].req = "KeyMap" /\ conn[c].seen >= 1) =>
            /\ client[c].pc # "panicked"
            /\ client[c].pc = "done" =>
                  /\ client[c].res.kind = "Some"
                  /\ \E i \in conn[c].seen..Len(hist) : client[c].res.data = hist[i]
                  /\ Len(client[c].res.data) = client[c].len

C3_Witness ==
    \E c \in Requesters :
        /\ client[c].pc = "done"
        /\ conn[c].seen = 1 /\ Len(hist) = 1
        /\ client[c].res = [kind |-> "Some", data |-> <<10, 11>>]

\* C4: with no KeyMap blob ever offered, a request_data(addr, KeyMap) that the
\* server has answered ends by returning None, never by failing.
C4_AbsentReturnsNone ==
    \A c \in Requesters :
        (/\ client[c].req = "KeyMap"
         /\ hist = <<>> /\ offering.req # "KeyMap"
         /\ conn[c].end = "returned"
         /\ Ended(c)) => client[c].res.kind = "None"

\* C5: whatever the peers do on their connections, the accept loop of the
\* listener is never terminated.
C5_AcceptLoopSurvives == srv # "panicked"

\* C9: once offer_data calls for KeyMap have returned, the store holds the
\* blob of the last of them; and a reply the handler completed for a request
\* it began after n >= 1 of them had returned is the length and payload of
\* one single blob, offered by the n-th call or a later one.
C9_LastOfferWins ==
    /\ (hist # <<>> /\ offering = NoOffer) => store["KeyMap"] = Last(hist)
    /\ \A c \in Clients :
          (conn[c].end = "returned" /\ conn[c].reply # <<>> /\ conn[c].seen >= 1) =>
              \E i \in conn[c].seen..Len(hist) : conn[c].reply = ReplyFor(hist[i])

C9_Witness ==
    /\ hist = <<<<10, 11>>, <<20>>>>
    /\ store["KeyMap"] = <<20>>
    /\ \E c \in Clients :
          /\ conn[c].seen = 2
          /\ conn[c].end = "returned"
          /\ conn[c].reply = ReplyFor(<<20>>)

\* the connection of c carried 4 tag bytes whose value is no Request ordinal
BadTag(c) ==
    /\ Len(conn[c].sent) >= 4
    /\ u32_from_ne_bytes(SubSeq(conn[c].sent, 1, 4)) \notin {0, 1}

Sent == {i \in 1..Len(net) : net[i].src # NoEvent}

\* C11: a step that puts an event's datagram on the network puts exactly one
\* there, behind those in flight, carrying encode(e) and addressed to the
\* resolved right peer, and it happens only with a right peer configured;
\* with none, a send_event changes nothing at all. No datagram of an event
\* is ever addressed to the left, top or bottom peer.
C11_SendEffect ==
    [][ /\ (Len(net') > Len(net) /\ Last(net').src # NoEvent) =>
              /\ client_addrs.right # NoAddr
              /\ net' = Append(net, Last(net'))
              /\ Last(net').dst = client_addrs.right
              /\ Last(net').bytes = Encode(Last(net').src)
        /\ (client_addrs.right = NoAddr /\ \E e \in Event : send_event(e)) =>
              UNCHANGED vars
        /\ \A i \in 1..Len(net') :
              net'[i].src # NoEvent => net'[i].dst = client_addrs'.right
      ]_vars

C11_Witness ==
    /\ client_addrs.left # NoAddr
    /\ client_addrs.right = PeerSocket
    /\ Sent = {1}
    /\ net[1].dst = client_addrs.right
    /\ net[1].bytes = Encode(net[1].src)

\* C12: a receive_event whose recv_from fails returns None: the caller does
\* not panic, nothing is decoded and no datagram is consumed; whenever the
\* last call returned None the caller is still running on its Connection,
\* and a call that follows a None and returns an event takes the next
\* datagram and returns the event it was sent for.
C12_RecvFailureIsNone ==
    [][ /\ receive_event_err =>
              /\ rx'.ret = "None"
              /\ rx'.event = NoEvent /\ rx'.raw = <<>>
              /\ UNCHANGED <<net, rstate, rpanic>>
        /\ rx'.ret = "None" =>
              /\ rstate' = "running" /\ cstate'.pc = "ready"
        /\ (rx.ret = "None" /\ rx'.ret = "Some") =>
              /\ net' = Tail(net)
              /\ rx'.raw = Head(net).bytes
              /\ Head(net).src # NoEvent => rx'.event = Head(net).src
      ]_vars

C12_Witness ==
    /\ rx.ret = "None"
    /\ rstate = "running"
    /\ net # <<>>
    /\ Head(net).src # NoEvent
    /\ ENABLED receive_event

Neither(d) == config[d].present /\ config[d].ip = "-" /\ config[d].host_name = "-"

\* C13: with a present entry that has neither ip nor host name,
\* Connection::new ends in a panic of the resolution: no address set is
\* built, the socket is never bound, and no event is sent or received. An
\* absent entry resolves to no address, and only an entry with neither makes
\* the resolution panic with the message about the missing ip and host name.
C13_NeitherIsFatalAtStartup ==
    /\ \A d \in Directions :
          Neither(d) =>
              /\ cstate.pc \in {"start", "panicked"}
              /\ cstate.pc = "panicked" =>
                     cstate.msg \in {"either ip or host_name must be specified",
                                     "couldn't resolve"}
              /\ client_addrs = NoAddrs
              /\ net = <<>> /\ rx = NotCalled /\ rstate = "running"
              /\ xfer.spc = "-"
    /\ \A d \in Directions :
          (~config[d].present /\ cstate.pc \in {"resolved", "ready"}) =>
              client_addrs[d] = NoAddr
    /\ cstate.msg = "either ip or host_name must be specified" =>
          \E d \in Directions : Neither(d)

C13_Witness ==
    /\ Neither("top")
    /\ ~config["left"].present
    /\ config["right"].ip # "-"
    /\ cstate = [pc |-> "panicked",
                 msg |-> "either ip or host_name must be specified"]
    /\ net = <<>>

\* C14: a present entry with a literal ip resolves to that ip, with or
\* without a host name, and its host name never goes to the resolver; the
\* resolver is asked only for entries without ip; the port of a resolved
\* address is the entry's port, or 42069 when it has none.
C14_LiteralIpNoLookup ==
    \A d \in Directions :
        /\ (config[d].present /\ config[d].ip # "-") =>
              /\ d \notin lookups
              /\ cstate.pc \in {"resolved", "ready"} =>
                     client_addrs[d].ip = config[d].ip
        /\ d \in lookups =>
              (config[d].present /\ config[d].ip = "-" /\ config[d].host_name # "-")
        /\ (config[d].present /\ cstate.pc \in {"resolved", "ready"}) =>
              client_addrs[d].port =
                  IF config[d].port # 0 THEN config[d].port ELSE 42069

C14_Witness ==
    /\ cstate.pc = "ready"
    /\ config["left"] = Entry("10.0.0.2", "peer.lan", 4242)
    /\ client_addrs["left"] = [ip |-> "10.0.0.2", port |-> 4242]
    /\ config["right"] = Entry("10.0.0.2", "-", 0)
    /\ client_addrs["right"] = [ip |-> "10.0.0.2", port |-> 42069]
    /\ config["top"] = Entry("-", "peer.lan", 0)
    /\ client_addrs["top"] = [ip |-> "10.0.0.9", port |-> 42069]
    /\ lookups = {"top"}

\* C20: when receive_data returns at the peer of a send_data(buf), the
\* vector it returns is buf.
C20_DataRoundTrip ==
    xfer.rpc = "done" => xfer.data = xfer.buf

Handling == {"read_tag", "lock", "write_len", "write_payload", "finish"}

\* C15: the reply of a handler that returned from the KeyMap arm is an
\* 8-byte length L followed by exactly L payload bytes, L being 0 for an
\* absent entry and the blob's length, followed by the blob, for a present
\* one; the connection is then closed, and no reply byte is written before
\* the 4 tag bytes were read.
C15_ReplyFraming ==
    \A c \in Clients :
        /\ conn[c].reply # <<>> => (Len(conn[c].sent) >= 4 /\ conn[c].arm = "KeyMap")
        /\ (conn[c].arm = "KeyMap" /\ conn[c].end = "returned") =>
              /\ conn[c].s_closed
              /\ Len(conn[c].reply) >= 8
              /\ Len(conn[c].reply) =
                     8 + usize_from_ne_bytes(SubSeq(conn[c].reply, 1, 8))
              /\ \/ conn[c].reply = ReplyFor(NoBlob)
                 \/ \E i \in 1..Len(hist) : conn[c].reply = ReplyFor(hist[i])

\* C16: the write access of offer_data and the read access of a handler
\* never overlap: a handler holds the store for reading from its lookup to
\* its return, no offer_data holds it for writing meanwhile and the store
\* does not change then; while an offer_data holds it no handler has read
\* access. The length and the payload of a reply to a present entry are
\* those of one blob that was offered.
C16_LookupExcludesUpdate ==
    [][ /\ ~(lock.writer /\ lock.readers > 0)
        /\ lock.writer <=> offering # NoOffer
        /\ lock.readers = (IF srv \in {"write_len", "write_payload", "finish"}
                           THEN 1 ELSE 0)
        /\ (lock.readers > 0 /\ lock'.readers > 0) => store' = store
        /\ \A c \in Clients :
              Len(conn[c].reply) >= 8 =>
                  \E i \in 1..Len(hist) :
                      \E n \in 8..Len(ReplyFor(hist[i])) :
                          conn[c].reply = SubSeq(ReplyFor(hist[i]), 1, n)
      ]_vars

C16_Witness ==
    /\ srv = "write_payload"
    /\ lock.readers = 1
    /\ offers = 1
    /\ hist = << <<10, 11>> >>
    /\ cur \in Requesters
    /\ conn[cur].reply = usize_to_ne_bytes(2)
    /\ ENABLED handle_write_payload
    /\ ~ENABLED (\E req \in Request, d \in Blobs : offer_data_lock(req, d))

\* C17: the listener handles one connection at a time, in the order the
\* connections were made: it takes a stream only when no handler runs, and
\* the stream it takes is the one that has waited longest; a handler runs
\* exactly while the thread is between its accept and the handler's return.
C17_OneAtATime ==
    [][ /\ (cur' # cur /\ cur' # NoClient) =>
              /\ cur = NoClient
              /\ srv = "accepting"
              /\ accq # <<>>
              /\ cur' = Head(accq)
              /\ accq' = Tail(accq)
        /\ (cur # NoClient) <=> (srv \in Handling)
        /\ cur # NoClient => (conn[cur].end = "-" /\ ~conn[cur].s_closed)
      ]_vars

C17_Witness ==
    /\ cur = "app"
    /\ srv = "write_len"
    /\ accq = <<"peer">>
    /\ conn["peer"].open /\ conn["peer"].end = "-"

\* C18: no connection makes the handler enter the Connect arm.
C18_ConnectUnreachable ==
    \A c \in Clients : conn[c].arm # "Connect"

\* C19: once Server::listen has returned Ok the listening socket is bound:
\* the thread is past a successful bind.
C19_ListenOkMeansBound ==
    listen_ret => srv \notin {"spawned", "bind_failed"}

====
